---- MODULE Spec2Model ----
(***************************************************************************)
(* State-machine model of the BestMan base navigator, its PID distance     *)
(* controller and the arm trajectory executor                              *)
(* (src/RoboticsToolBox/Bestman_sim.py).                                   *)
(*                                                                         *)
(* Reals are modelled on fixed-point lattices:                             *)
(*   - angles are integers, PI lattice units to the half turn;             *)
(*   - lengths are integers (lattice units);                               *)
(*   - PID gains are integers over the common denominator KDen.            *)
(* A quaternion [0, 0, sin(yaw/2), cos(yaw/2)] about the z axis is         *)
(* determined by yaw modulo two turns and is represented by that residue.  *)
(***************************************************************************)
EXTENDS Integers, Sequences, FiniteSets, TLC

\* ------------------------------------------------------------------------
\* Lattices and bounds
\* ------------------------------------------------------------------------

\* lattice units in a quarter turn
HalfPi == 2

PI == 2 * HalfPi

TwoPi == 2 * PI

\* target yaws range over -MaxTurns*PI .. MaxTurns*PI
MaxTurns == 2

\* step sizes range over 1 .. MaxStep
MaxStep == 5

\* common denominator of the PID gains: a gain of n stands for n / KDen
KDen == 2

\* gain numerators: Kp in 0..MaxKp, Ki in 0..MaxKi, Kd in 0..MaxKd
MaxKp == 3

MaxKi == 1

MaxKd == 1

\* base coordinates stay within -MaxCoord .. MaxCoord
MaxCoord == 4

\* waypoint thresholds range over MinThreshold .. MaxThreshold; a threshold
\* is many lattice units in the code (0.01 against the float spacing), and
\* MinThreshold keeps gain * threshold at least one lattice unit
MinThreshold == 2

MaxThreshold == 3

\* loop passes of one sim_move_base_to_waypoint call explored
MaxCnt == 41

\* waypoint and path coordinates range over -MaxWp .. MaxWp
MaxWp == 2

\* top-level calls explored in one behaviour
MaxCalls == 2

\* points of a navigation path
MaxPath == 2

\* entries of a joint trajectory
MaxTraj == 2

\* commanded joint values range over 0 .. MaxJoint
MaxJoint == 1

\* what the position controller may still be off by, per joint, after the
\* settling ticks
MaxTrackErr == 1

\* interpolation samples of sim_move_end_effector_to_goal_pose: 0 .. MaxSteps
MaxSteps == 3

\* measurements fed to the controller on its own: 0 .. MaxMeasure
MaxMeasure == 5

\* calculate calls made on the controller on its own
MaxPidCalls == 2

\* engine steps the two threads' calls may issue together
MaxThreadTicks == 12

\* add_keyframe calls made on the recorder
MaxKeyframes == 4

\* LinkTrackers registered with the recorder
MaxLinks == 3

\* open_drawer and close_drawer calls made on the kitchen
MaxDrawerCalls == 2

\* drawer ids the callers pass, from 0
MaxDrawerId == 12

\* the angles sim_rotate_end_effector is called with, either way
MaxAngle == 2

\* engine steps a sim_rotate_end_effector call may wait after the settling
\* ones
MaxWaitTicks == 3

\* self.pb_client.run(240 * 5)
drawer_ticks == 1200

\* sim_rotate_end_effector's tolerance (0.01 rad), one joint lattice unit
rotate_tolerance == 1

Abs(v) == IF v < 0 THEN -v ELSE v

\* ------------------------------------------------------------------------
\* Angle helpers of sim_rotate_base
\* ------------------------------------------------------------------------

\* mutant: the final "- math.pi" is dropped
shortest_angular_distance_nooffset(from_angle, to_angle) ==
    (to_angle - from_angle + PI) % TwoPi

\* mutant: the modulus is a half turn instead of a full turn
shortest_angular_distance_halfmod(from_angle, to_angle) ==
    ((to_angle - from_angle + PI) % PI) - PI

\* (to_angle - from_angle + math.pi) % (2 * math.pi) - math.pi
\* Python's % with a positive modulus yields a value in [0, modulus), as
\* does TLA+'s.
shortest_angular_distance(from_angle, to_angle) ==
    ((to_angle - from_angle + PI) % TwoPi) - PI

\* [0, 0, sin(yaw/2), cos(yaw/2)]: the pair (sin(yaw/2), cos(yaw/2)) has
\* period two turns in yaw and is injective within it.
angle_to_quaternion(yaw) == yaw % (2 * TwoPi)

\* p.getEulerFromQuaternion(orientation)[2]: the yaw of a z-axis quaternion,
\* an atan2 value, in (-PI, PI].
getEulerYaw(q) ==
    LET y == q % TwoPi IN IF y > PI THEN y - TwoPi ELSE y

\* mutant: the stepped yaw is stored as it is
normalize_yaw_skipped(yaw) == yaw

\* (yaw + math.pi) % (2 * math.pi) - math.pi
normalize_yaw(yaw) == ((yaw + PI) % TwoPi) - PI

\* math.cos / math.sin, exact on the quarter turns (the only headings the
\* base translates along in this model's inputs)
Cos(a) ==
    CASE a % TwoPi = 0 -> 1
      [] a % TwoPi = HalfPi -> 0
      [] a % TwoPi = PI -> -1
      [] a % TwoPi = PI + HalfPi -> 0

Sin(a) ==
    CASE a % TwoPi = 0 -> 0
      [] a % TwoPi = HalfPi -> 1
      [] a % TwoPi = PI -> 0
      [] a % TwoPi = PI + HalfPi -> -1

\* ------------------------------------------------------------------------
\* State
\* ------------------------------------------------------------------------

VARIABLES
    \* engine state of the base body and of the arm body
    base_pos, base_orn, arm_pos, arm_orn,
    \* engine state of the arm joints: achieved values and motor targets
    joints, motor_target,
    \* engine steps (client.run ticks) issued since the running top-level
    \* call started
    ticks,
    \* Bestman_sim fields
    current_base_yaw, base_rotated, target_distance,
    \* the PIDController instance self.distance_controller
    pid,
    \* control position, the stack of return labels, top-level calls made
    pc, stack, calls,
    \* locals of the running sim_rotate_base, sim_move_base_to_waypoint,
    \* sim_navigate_base and arm calls
    rot, wp, nav, arm,
    \* what the running top-level call has printed or raised
    out,
    \* inputs and results of a pure-function application
    fn_in, fn_out,
    \* the sim_rotate_base calls of callers running on their own threads:
    \* each one's position and locals
    threads,
    \* the PyBulletRecorder instance, with the calls made on it
    recorder,
    \* the Kitchen's drawer joints as the engine holds them, with what the
    \* last open_drawer or close_drawer call did
    kitchen

engineVars == <<base_pos, base_orn, arm_pos, arm_orn>>

jointVars == <<joints, motor_target>>

robotVars == <<current_base_yaw, base_rotated, target_distance>>

frameVars == <<rot, wp, nav, arm>>

fnVars == <<fn_in, fn_out>>

toolVars == <<recorder, kitchen>>

vars == <<base_pos, base_orn, arm_pos, arm_orn, joints, motor_target, ticks,
          current_base_yaw, base_rotated, target_distance, pid,
          pc, stack, calls, rot, wp, nav, arm, out, fn_in, fn_out, threads,
          recorder, kitchen>>

\* robot_cfg.base_height + 0.02
arm_place_height == 1

Yaws == (1 - PI)..PI

TargetYaws == (-(MaxTurns * PI))..(MaxTurns * PI)

StepSizes == 1..MaxStep

\* rot.diff0 (the angle_diff computed at entry) and rot.iters (loop passes
\* taken) observe the call; the code keeps neither.
NoRot == [target_yaw |-> 0, gradual |-> FALSE, step_size |-> 1,
          angle_diff |-> 0, iters |-> 0, diff0 |-> 0]

Threads == {1, 2}

\* th.overlapped (another thread wrote the base while this call was between
\* its first and last statement) and th.post (on return the base's
\* orientation and current_base_yaw were those of target_yaw) observe the
\* call; the code keeps neither.
NoThread == [pc |-> "idle", target_yaw |-> 0, step_size |-> 1,
             angle_diff |-> 0, overlapped |-> FALSE, post |-> FALSE]

NoThreads == [t \in Threads |-> NoThread]

NoOut == [warning |-> FALSE, info |-> FALSE, error |-> FALSE]

\* sim_rotate_base's default step_size (0.02 rad), one angle lattice unit
default_step_size == 1

\* sim_move_base_to_waypoint's default threshold (0.01)
default_wp_threshold == 2

\* the loop forces an engine step when cnt % 20 == 0
sync_period == 20

\* len(self.arm_joints_idx)
DOF == 2

\* wp.dist0 (the distance when the call started) and wp.rotations (calls of
\* sim_rotate_base made) observe the call; the code keeps neither.
NoWp == [waypoint |-> <<0, 0>>, threshold |-> default_wp_threshold,
         cnt |-> 1, distance |-> 0, output |-> 0, yaw |-> 0,
         dist0 |-> 0, rotations |-> 0]

NoPose == [pos |-> <<0, 0, 0>>, yaw |-> 0]

\* nav.visited (the waypoints handed to sim_move_base_to_waypoint so far)
\* and nav.rotations (calls of sim_rotate_base made by sim_navigate_base
\* itself) observe the call; the code keeps neither.
NoNav == [goal |-> NoPose, path |-> <<>>, threshold |-> 0, i |-> 1,
          ik_error |-> 0, visited |-> <<>>, rotations |-> 0]

\* arm.commanded (the joint vectors commanded so far) observes the call
NoArm == [op |-> "none", trajectory |-> <<>>, threshold |-> 0, i |-> 1,
          goal |-> <<0, 0>>, start |-> <<0, 0>>, steps |-> 0,
          commanded |-> <<>>, error |-> 0,
          angle |-> 0, target_joint_values |-> <<0, 0>>]

\* ------------------------------------------------------------------------
\* sim_sync_base_arm_pose, as a function of the base pose just written
\* ------------------------------------------------------------------------

\* mutant: the arm is put at the base's own height
sync_arm_pos_base_height(position) == position

sync_arm_pos(position) == <<position[1], position[2], arm_place_height>>

\* ------------------------------------------------------------------------
\* sim_rotate_base
\* ------------------------------------------------------------------------

Return ==
    /\ pc' = Head(stack)
    /\ stack' = Tail(stack)

\* entry of sim_rotate_base: on the gradual branch angle_diff is computed
\* once before the loop
rotate_enter(target_yaw, gradual, step_size) ==
    LET d == IF gradual
             THEN shortest_angular_distance(current_base_yaw, target_yaw)
             ELSE 0
    IN rot' = [target_yaw |-> target_yaw, gradual |-> gradual,
               step_size |-> step_size, angle_diff |-> d,
               iters |-> 0, diff0 |-> d]

\* mutant: the loop always steps in the positive direction
rotate_step_yaw_positive(yaw, angle_diff, step_size) ==
    normalize_yaw(yaw + step_size)

\* one pass of the while body up to the normalisation: the new
\* current_base_yaw
rotate_step_yaw(yaw, angle_diff, step_size) ==
    normalize_yaw(IF angle_diff > 0 THEN yaw + step_size
                                    ELSE yaw - step_size)

\* while abs(angle_diff) > step_size: one iteration, ending with client.run()
sim_rotate_base_step ==
    /\ pc = "rotate"
    /\ rot.gradual
    /\ Abs(rot.angle_diff) > rot.step_size
    /\ LET yaw == rotate_step_yaw(current_base_yaw, rot.angle_diff,
                                  rot.step_size)
       IN /\ current_base_yaw' = yaw
          /\ rot' = [rot EXCEPT
                       !.angle_diff = shortest_angular_distance(
                                          yaw, rot.target_yaw),
                       !.iters = @ + 1]
          /\ base_orn' = angle_to_quaternion(yaw)
          /\ base_pos' = base_pos
          /\ arm_pos' = sync_arm_pos(base_pos)
          /\ arm_orn' = angle_to_quaternion(yaw)
    /\ ticks' = ticks + 1
    /\ UNCHANGED <<toolVars, base_rotated, target_distance, pid, pc, stack,
                   calls, wp, nav, arm, out, jointVars, fnVars,
                   threads>>

\* mutant: the final snap turns the base to the mirrored yaw
rotate_snap_orn_mirrored(orn, target_yaw) == angle_to_quaternion(-target_yaw)

\* mutant: the final snap is left out, the call returns after the loop
rotate_snap_orn_skipped(orn, target_yaw) == orn

\* the orientation applied after the loop
rotate_snap_orn(orn, target_yaw) == angle_to_quaternion(target_yaw)

\* loop exit of the gradual branch: snap to target_yaw, sync, record the
\* yaw, client.run(), return
sim_rotate_base_snap ==
    /\ pc = "rotate"
    /\ rot.gradual
    /\ ~(Abs(rot.angle_diff) > rot.step_size)
    /\ base_orn' = rotate_snap_orn(base_orn, rot.target_yaw)
    /\ base_pos' = base_pos
    /\ arm_pos' = sync_arm_pos(base_pos)
    /\ arm_orn' = base_orn'
    /\ current_base_yaw' = rot.target_yaw
    /\ ticks' = ticks + 1
    /\ Return
    /\ UNCHANGED <<toolVars, base_rotated, target_distance, pid, calls,
                   frameVars, out, jointVars, fnVars,
                   threads>>

\* client.run(5) of the non-gradual branch
InstantTicks == 5

\* the non-gradual branch: apply target_yaw at once, sync, client.run(5)
sim_rotate_base_instant ==
    /\ pc = "rotate"
    /\ ~rot.gradual
    /\ base_orn' = angle_to_quaternion(rot.target_yaw)
    /\ base_pos' = base_pos
    /\ arm_pos' = sync_arm_pos(base_pos)
    /\ arm_orn' = base_orn'
    /\ ticks' = ticks + InstantTicks
    /\ Return
    /\ UNCHANGED <<toolVars, robotVars, pid, calls, frameVars, out, jointVars,
                   fnVars, threads>>

\* a top-level call starts: the observations of the previous one are cleared
TopLevel(label) ==
    /\ pc = "idle"
    /\ calls < MaxCalls
    /\ calls' = calls + 1
    /\ pc' = label
    /\ stack' = <<"idle">>
    /\ ticks' = 0
    /\ out' = NoOut

\* a caller invokes sim_rotate_base(target_yaw, gradual, step_size)
sim_rotate_base_call(target_yaw, gradual, step_size) ==
    /\ TopLevel("rotate")
    /\ rotate_enter(target_yaw, gradual, step_size)
    /\ wp' = NoWp /\ nav' = NoNav /\ arm' = NoArm
    /\ UNCHANGED <<toolVars, engineVars, robotVars, pid, jointVars, fnVars,
                   threads>>

CallRotate ==
    \E t \in TargetYaws, g \in BOOLEAN, s \in StepSizes :
        sim_rotate_base_call(t, g, s)

\* ------------------------------------------------------------------------
\* PIDController (package Controller): set_goal and calculate
\* ------------------------------------------------------------------------

\* n / d rounded to the nearest lattice point, halves away from zero
RoundDiv(n, d) ==
    IF n >= 0 THEN (2 * n + d) \div (2 * d)
              ELSE -((2 * (-n) + d) \div (2 * d))

NewPid(Kp, Ki, Kd, setpoint) ==
    [Kp |-> Kp, Ki |-> Ki, Kd |-> Kd, setpoint |-> setpoint,
     integral_accumulator |-> 0, previous_error |-> 0]

pid_set_goal(c, new_setpoint) == [c EXCEPT !.setpoint = new_setpoint]

\* mutant: the derivative term uses the error itself
pid_output_noderivative(c, measurement) ==
    LET error == c.setpoint - measurement
        integral == c.integral_accumulator + error
    IN RoundDiv(c.Kp * error + c.Ki * integral + c.Kd * error, KDen)

\* the value calculate returns
pid_output(c, measurement) ==
    LET error == c.setpoint - measurement
        integral == c.integral_accumulator + error
        derivative == error - c.previous_error
    IN RoundDiv(c.Kp * error + c.Ki * integral + c.Kd * derivative, KDen)

\* the controller state calculate leaves
pid_calculate(c, measurement) ==
    LET error == c.setpoint - measurement
    IN [c EXCEPT !.integral_accumulator = @ + error,
                 !.previous_error = error]

\* ------------------------------------------------------------------------
\* sim_action and sim_move_base_to_waypoint
\* ------------------------------------------------------------------------

\* math.sqrt on the lattice: the integer square root; exact for the
\* axis-aligned displacements the inputs are drawn from, and
\* ISqrt(n) < t  <=>  n < t*t for every integer t
ISqrt(n) == CHOOSE r \in 0..n : r * r <= n /\ (r + 1) * (r + 1) > n

\* math.atan2 on the directions of the axes
Atan2(dy, dx) ==
    CASE dy = 0 /\ dx >= 0 -> 0
      [] dy = 0 /\ dx < 0 -> PI
      [] dx = 0 /\ dy > 0 -> HalfPi
      [] dx = 0 /\ dy < 0 -> -HalfPi

\* distance = math.sqrt((target.y - y) ** 2 + (target.x - x) ** 2)
wp_distance(position, target) ==
    ISqrt((target[2] - position[2]) * (target[2] - position[2])
          + (target[1] - position[1]) * (target[1] - position[1]))

\* mutant: sine and cosine are exchanged
sim_action_pos_swapped(position, orientation, output) ==
    LET yaw == getEulerYaw(orientation)
    IN <<position[1] + output * Sin(yaw),
         position[2] + output * Cos(yaw),
         position[3]>>

\* the position sim_action(output) writes
sim_action_pos(position, orientation, output) ==
    LET yaw == getEulerYaw(orientation)
    IN <<position[1] + output * Cos(yaw),
         position[2] + output * Sin(yaw),
         position[3]>>

InBounds(position) ==
    Abs(position[1]) <= MaxCoord /\ Abs(position[2]) <= MaxCoord

\* mutant: the navigator re-creates the controller for every waypoint
wp_enter_pid_fresh(c) == NewPid(c.Kp, c.Ki, c.Kd, 0)

\* what entering sim_move_base_to_waypoint does to the controller: nothing
wp_enter_pid(c) == c

\* mutant: base_rotated is left as the previous call set it
wp_enter_noreset(waypoint, threshold) ==
    /\ wp' = [NoWp EXCEPT !.waypoint = waypoint, !.threshold = threshold,
                          !.dist0 = wp_distance(base_pos, waypoint)]
    /\ target_distance' = 0
    /\ base_rotated' = base_rotated
    /\ pid' = wp_enter_pid(pid)

\* lines 280-283: next_waypoint, target_distance, base_rotated, cnt
wp_enter(waypoint, threshold) ==
    /\ wp' = [NoWp EXCEPT !.waypoint = waypoint, !.threshold = threshold,
                          !.dist0 = wp_distance(base_pos, waypoint)]
    /\ target_distance' = 0
    /\ base_rotated' = FALSE
    /\ pid' = wp_enter_pid(pid)

\* mutant: the loop breaks at distance <= threshold
wp_exit_test_inclusive(distance, threshold) == distance <= threshold

\* the loop's only break: distance < threshold
wp_exit_test(distance, threshold) == distance < threshold

\* mutant: the break test comes after set_goal and calculate
sim_move_base_to_waypoint_exit_late ==
    /\ pc = "wp_loop"
    /\ LET distance == wp_distance(base_pos, wp.waypoint)
       IN /\ wp_exit_test(distance, wp.threshold)
          /\ wp' = [wp EXCEPT !.distance = distance]
          /\ pid' = pid_calculate(pid_set_goal(pid, target_distance),
                                  distance)
    /\ ticks' = ticks + 1
    /\ Return
    /\ UNCHANGED <<toolVars, engineVars, robotVars, calls, rot, nav, arm, out,
                   jointVars, fnVars, threads>>

\* the pass that breaks: the loop ends, client.run(), return
sim_move_base_to_waypoint_exit ==
    /\ pc = "wp_loop"
    /\ LET distance == wp_distance(base_pos, wp.waypoint)
       IN /\ wp_exit_test(distance, wp.threshold)
          /\ wp' = [wp EXCEPT !.distance = distance]
    /\ ticks' = ticks + 1
    /\ Return
    /\ UNCHANGED <<toolVars, engineVars, robotVars, pid, calls, rot, nav, arm,
                   out, jointVars, fnVars,
                   threads>>

\* the first pass that does not break, up to its call of
\* sim_rotate_base(yaw): set_goal, calculate, atan2, then the rotation runs
sim_move_base_to_waypoint_aim ==
    /\ pc = "wp_loop"
    /\ ~base_rotated
    /\ wp.cnt < MaxCnt
    /\ LET distance == wp_distance(base_pos, wp.waypoint)
           c == pid_set_goal(pid, target_distance)
           yaw == Atan2(wp.waypoint[2] - base_pos[2],
                        wp.waypoint[1] - base_pos[1])
       IN /\ ~wp_exit_test(distance, wp.threshold)
          /\ pid' = pid_calculate(c, distance)
          /\ wp' = [wp EXCEPT !.distance = distance,
                              !.output = pid_output(c, distance),
                              !.yaw = yaw,
                              !.rotations = @ + 1]
          /\ rotate_enter(yaw, TRUE, default_step_size)
    /\ pc' = "rotate"
    /\ stack' = <<"wp_move">> \o stack
    /\ UNCHANGED <<toolVars, engineVars, robotVars, ticks, calls, nav, arm,
                   out, jointVars, fnVars,
                   threads>>

\* mutant: the controller's output is applied without the sign change
wp_step_pos_unsigned(position, orientation, output) ==
    sim_action_pos(position, orientation, output)

\* where a pass moves the base: sim_action(-output)
wp_step_pos(position, orientation, output) ==
    sim_action_pos(position, orientation, -output)

\* mutant: the passes are counted from 0, so the 1st, 21st, ... step
wp_sync_due_from_zero(cnt) == (cnt - 1) % sync_period = 0

\* if cnt % 20 == 0: the pass forces an engine step
wp_sync_due(cnt) == cnt % sync_period = 0

\* the rest of a pass: sim_action(-output) with its sync of the arm, the
\* periodic engine step
wp_translate(output) ==
    LET position == wp_step_pos(base_pos, base_orn, output)
    IN /\ InBounds(position)
       /\ base_pos' = position
       /\ arm_pos' = sync_arm_pos(position)
       /\ arm_orn' = base_orn
       /\ base_orn' = base_orn
       /\ ticks' = IF wp_sync_due(wp.cnt) THEN ticks + 1 ELSE ticks

\* the first pass after its rotation returned: base_rotated, sim_action
sim_move_base_to_waypoint_move ==
    /\ pc = "wp_move"
    /\ base_rotated' = TRUE
    /\ wp_translate(wp.output)
    /\ wp' = [wp EXCEPT !.cnt = @ + 1]
    /\ pc' = "wp_loop"
    /\ UNCHANGED <<toolVars, current_base_yaw, target_distance, pid, stack,
                   calls, rot, nav, arm, out, jointVars, fnVars,
                   threads>>

\* a later pass that does not break: set_goal, calculate, sim_action
sim_move_base_to_waypoint_iter ==
    /\ pc = "wp_loop"
    /\ base_rotated
    /\ wp.cnt < MaxCnt
    /\ LET distance == wp_distance(base_pos, wp.waypoint)
           c == pid_set_goal(pid, target_distance)
           output == pid_output(c, distance)
       IN /\ ~wp_exit_test(distance, wp.threshold)
          /\ pid' = pid_calculate(c, distance)
          /\ wp_translate(output)
          /\ wp' = [wp EXCEPT !.distance = distance,
                              !.output = output,
                              !.yaw = Atan2(wp.waypoint[2] - base_pos[2],
                                            wp.waypoint[1] - base_pos[1]),
                              !.cnt = @ + 1]
    /\ UNCHANGED <<toolVars, robotVars, pc, stack, calls, rot, nav, arm, out,
                   jointVars, fnVars,
                   threads>>

\* a caller invokes sim_move_base_to_waypoint(waypoint, threshold)
sim_move_base_to_waypoint_call(waypoint, threshold) ==
    /\ TopLevel("wp_loop")
    /\ wp_enter(waypoint, threshold)
    /\ rot' = NoRot /\ nav' = NoNav /\ arm' = NoArm
    /\ UNCHANGED <<toolVars, engineVars, current_base_yaw, jointVars, fnVars,
                   threads>>

\* ------------------------------------------------------------------------
\* sim_navigate_base and sim_calculate_nav_error
\* ------------------------------------------------------------------------

\* client.run(10) after the final rotation
nav_settle_ticks == 10

\* np.linalg.norm(current position - goal position), over x, y and z
sim_calculate_nav_error(position, goal_position) ==
    ISqrt((position[1] - goal_position[1]) * (position[1] - goal_position[1])
          + (position[2] - goal_position[2]) * (position[2] - goal_position[2])
          + (position[3] - goal_position[3]) * (position[3] - goal_position[3]))

\* mutant: the path is walked from its far end
nav_point_reversed(path, i) == path[Len(path) + 1 - i]

\* path[i] of the loop's i-th pass (1-based here, 0-based in the code)
nav_point(path, i) == path[i]

\* mutant: the caller's threshold is handed on to the waypoint call
nav_wp_threshold_passed(threshold) == threshold

\* the threshold of the waypoint calls sim_navigate_base makes: the call
\* passes none, so sim_move_base_to_waypoint's default applies
nav_wp_threshold(threshold) == default_wp_threshold

\* for i in range(len(path)): the next point's sim_move_base_to_waypoint
\* call, with that method's default threshold
sim_navigate_base_next ==
    /\ pc = "nav_loop"
    /\ nav.i <= Len(nav.path)
    /\ wp_enter(nav_point(nav.path, nav.i), nav_wp_threshold(nav.threshold))
    /\ nav' = [nav EXCEPT !.i = @ + 1,
                          !.visited = Append(@, nav_point(nav.path, nav.i))]
    /\ pc' = "wp_loop"
    /\ stack' = <<"nav_loop">> \o stack
    /\ UNCHANGED <<toolVars, engineVars, current_base_yaw, ticks, calls, rot,
                   arm, out, jointVars, fnVars,
                   threads>>

\* the path is exhausted: sim_rotate_base(goal yaw)
sim_navigate_base_rotate ==
    /\ pc = "nav_loop"
    /\ nav.i > Len(nav.path)
    /\ rotate_enter(nav.goal.yaw, TRUE, default_step_size)
    /\ nav' = [nav EXCEPT !.rotations = @ + 1]
    /\ pc' = "rotate"
    /\ stack' = <<"nav_check">> \o stack
    /\ UNCHANGED <<toolVars, engineVars, robotVars, pid, ticks, calls, wp, arm,
                   out, jointVars, fnVars,
                   threads>>

\* mutant: an error above the threshold aborts the call
nav_outcome_raising(ik_error, threshold) ==
    [warning |-> FALSE, info |-> FALSE, error |-> ik_error >= threshold]

\* mutant: the warning is printed only above the threshold
nav_outcome_strict(ik_error, threshold) ==
    [warning |-> ik_error > threshold, info |-> TRUE, error |-> FALSE]

\* the prints after the final rotation: the warning, then 'Navigation is
\* done!'
nav_outcome(ik_error, threshold) ==
    [warning |-> ik_error >= threshold, info |-> TRUE, error |-> FALSE]

\* client.run(10), the error against the goal, the prints, return
sim_navigate_base_check ==
    /\ pc = "nav_check"
    /\ ticks' = ticks + nav_settle_ticks
    /\ LET ik_error == sim_calculate_nav_error(base_pos, nav.goal.pos)
       IN /\ nav' = [nav EXCEPT !.ik_error = ik_error]
          /\ out' = nav_outcome(ik_error, nav.threshold)
    /\ Return
    /\ UNCHANGED <<toolVars, engineVars, robotVars, pid, calls, rot, wp, arm,
                   jointVars, fnVars,
                   threads>>

\* a caller invokes sim_navigate_base(goal_base_pose, path, threshold)
sim_navigate_base_call(goal, path, threshold) ==
    /\ TopLevel("nav_loop")
    /\ nav' = [NoNav EXCEPT !.goal = goal, !.path = path,
                            !.threshold = threshold]
    /\ rot' = NoRot /\ wp' = NoWp /\ arm' = NoArm
    /\ UNCHANGED <<toolVars, engineVars, robotVars, pid, jointVars, fnVars,
                   threads>>

\* ------------------------------------------------------------------------
\* Arm: sim_move_arm_to_joint_values, sim_execute_trajectory,
\* sim_move_end_effector_to_goal_pose
\* ------------------------------------------------------------------------

\* client.run(40): the settling ticks after a joint command
arm_settle_ticks == 40

Joints == 1..DOF

\* the arm joints' limits (arm_lower_limits, arm_upper_limits): the engine
\* keeps every joint between them
arm_lower_limit == -MaxTrackErr

arm_upper_limit == MaxJoint + 1 + MaxTrackErr

JointRange == arm_lower_limit..arm_upper_limit

\* the position the motor can hold a joint at for a commanded target: the
\* target, or the limit the target lies beyond
within_limits(target) ==
    [k \in Joints |->
        IF target[k] < arm_lower_limit THEN arm_lower_limit
        ELSE IF target[k] > arm_upper_limit THEN arm_upper_limit
        ELSE target[k]]

\* the joint values the engine's position controller may have reached after
\* engine steps, for motor targets `target`
engine_settle(target) ==
    {j \in [Joints -> JointRange] :
        \A k \in Joints :
            Abs(j[k] - within_limits(target)[k]) <= MaxTrackErr}

\* forward kinematics of the engine's arm (p.getLinkState): the end
\* effector's position along its line of travel and its orientation
engine_fk(j) == <<j[1] + j[2], j[2]>>

\* p.calculateInverseKinematics for that arm
sim_cartesian_to_joints(pose) == <<pose[1] - pose[2], pose[2]>>

\* mutant: the command is followed by a single engine step
sim_move_arm_to_joint_values_one_tick(joint_values) ==
    /\ motor_target' = joint_values
    /\ joints' \in engine_settle(joint_values)
    /\ ticks' = ticks + 1

\* sim_move_arm_to_joint_values: the position command, then client.run(40)
sim_move_arm_to_joint_values(joint_values) ==
    /\ motor_target' = joint_values
    /\ joints' \in engine_settle(joint_values)
    /\ ticks' = ticks + arm_settle_ticks

\* target_joint_values: the joint values read from the engine, the last one
\* increased by angle
rotate_target_joint_values(current, angle) ==
    [current EXCEPT ![DOF] = @ + angle]

\* mutant: the wait ends once some joint is at its target
joints_reached_any(current, target) ==
    \E i \in Joints : Abs(current[i] - target[i]) < rotate_tolerance

\* all(abs(current_joint_values[i] - target_joint_values[i]) < 0.01 ...)
joints_reached(current, target) ==
    \A i \in Joints : Abs(current[i] - target[i]) < rotate_tolerance

\* sim_rotate_end_effector up to its loop: the targets are computed and
\* commanded
sim_rotate_end_effector_command ==
    /\ pc = "rotate_ee"
    /\ LET target == rotate_target_joint_values(joints, arm.angle)
       IN /\ sim_move_arm_to_joint_values(target)
          /\ arm' = [arm EXCEPT !.target_joint_values = target,
                                !.commanded = Append(@, target)]
    /\ pc' = "rotate_ee_loop"
    /\ UNCHANGED <<toolVars, engineVars, robotVars, pid, stack, calls, rot,
                   wp, nav, out, fnVars, threads>>

\* while True: the joints are not all at their targets; self.client.run()
sim_rotate_end_effector_wait ==
    /\ pc = "rotate_ee_loop"
    /\ ~joints_reached(joints, arm.target_joint_values)
    /\ ticks < arm_settle_ticks + MaxWaitTicks
    /\ joints' \in engine_settle(motor_target)
    /\ ticks' = ticks + 1
    /\ UNCHANGED <<toolVars, engineVars, robotVars, pid, pc, stack, calls,
                   frameVars, out, motor_target, fnVars, threads>>

\* while True: the joints are all at their targets; break and the print
sim_rotate_end_effector_break ==
    /\ pc = "rotate_ee_loop"
    /\ joints_reached(joints, arm.target_joint_values)
    /\ out' = [out EXCEPT !.info = TRUE]
    /\ Return
    /\ UNCHANGED <<toolVars, engineVars, robotVars, pid, ticks, calls,
                   frameVars, jointVars, fnVars, threads>>

\* a caller invokes sim_rotate_end_effector(angle)
sim_rotate_end_effector_call(angle) ==
    /\ TopLevel("rotate_ee")
    /\ arm' = [NoArm EXCEPT !.op = "rotate_ee", !.angle = angle]
    /\ UNCHANGED <<toolVars, engineVars, robotVars, pid, rot, wp, nav,
                   jointVars, fnVars, threads>>

\* for i in range(len(trajectory)): one entry commanded
sim_execute_trajectory_step ==
    /\ pc = "exec_loop"
    /\ arm.i <= Len(arm.trajectory)
    /\ sim_move_arm_to_joint_values(arm.trajectory[arm.i])
    /\ arm' = [arm EXCEPT !.i = @ + 1,
                          !.commanded = Append(@, arm.trajectory[arm.i])]
    /\ UNCHANGED <<toolVars, engineVars, robotVars, pid, pc, stack, calls,
                   rot, wp, nav, out, fnVars,
                   threads>>

\* mutant: a joint exactly at the threshold is counted too
greater_num_inclusive(current, last, threshold) ==
    Cardinality({k \in Joints : Abs(current[k] - last[k]) >= threshold})

\* len([diff for diff in diff_angles if diff > threshold])
greater_num(current, last, threshold) ==
    Cardinality({k \in Joints : Abs(current[k] - last[k]) > threshold})

\* after the loop: client.run(40), then trajectory[-1] is read (an
\* IndexError on an empty trajectory, which the method does not catch),
\* the joints above the threshold are counted, the warning and 'Excite
\* trajectory finished!' are printed
exec_outcome(trajectory, current, threshold) ==
    IF Len(trajectory) = 0
    THEN [warning |-> FALSE, info |-> FALSE, error |-> TRUE]
    ELSE [warning |->
              greater_num(current, trajectory[Len(trajectory)], threshold) > 0,
          info |-> TRUE, error |-> FALSE]

sim_execute_trajectory_finish ==
    /\ pc = "exec_loop"
    /\ arm.i > Len(arm.trajectory)
    /\ joints' \in engine_settle(motor_target)
    /\ ticks' = ticks + arm_settle_ticks
    /\ out' = exec_outcome(arm.trajectory, joints', arm.threshold)
    /\ arm' = [arm EXCEPT !.error =
                 IF Len(arm.trajectory) = 0 THEN 0
                 ELSE greater_num(joints',
                                  arm.trajectory[Len(arm.trajectory)],
                                  arm.threshold)]
    /\ Return
    /\ UNCHANGED <<toolVars, engineVars, robotVars, pid, calls, rot, wp, nav,
                   motor_target, fnVars,
                   threads>>

\* a caller invokes sim_execute_trajectory(trajectory, threshold)
sim_execute_trajectory_call(trajectory, threshold) ==
    /\ TopLevel("exec_loop")
    /\ arm' = [NoArm EXCEPT !.op = "exec", !.trajectory = trajectory,
                            !.threshold = threshold]
    /\ rot' = NoRot /\ wp' = NoWp /\ nav' = NoNav
    /\ UNCHANGED <<toolVars, engineVars, robotVars, pid, jointVars, fnVars,
                   threads>>

\* np.linspace(0, 1, steps)[k] applied to (1 - t) * a + t * b: sample k of
\* `steps` (k from 0); a single sample is t = 0
interpolate(a, b, k, steps) ==
    IF steps <= 1 THEN a
    ELSE RoundDiv((steps - 1 - k) * a + k * b, steps - 1)

\* for t in np.linspace(0, 1, steps): interpolate, inverse kinematics,
\* command
sim_move_end_effector_step ==
    /\ pc = "ee_loop"
    /\ arm.i <= arm.steps
    /\ LET pose == <<interpolate(arm.start[1], arm.goal[1], arm.i - 1,
                                 arm.steps),
                     interpolate(arm.start[2], arm.goal[2], arm.i - 1,
                                 arm.steps)>>
           joint_values == sim_cartesian_to_joints(pose)
       IN /\ sim_move_arm_to_joint_values(joint_values)
          /\ arm' = [arm EXCEPT !.i = @ + 1,
                                !.commanded = Append(@, pose)]
    /\ UNCHANGED <<toolVars, engineVars, robotVars, pid, pc, stack, calls,
                   rot, wp, nav, out, fnVars,
                   threads>>

\* np.linalg.norm(end effector position - goal position)
sim_calculate_IK_error(j, goal) == Abs(engine_fk(j)[1] - goal[1])

\* the warning, then 'Move end effector to goal pose finished!'
ee_outcome(ik_error, threshold) ==
    [warning |-> ik_error >= threshold, info |-> TRUE, error |-> FALSE]

\* after the loop: the error against the goal, the prints, return
sim_move_end_effector_finish ==
    /\ pc = "ee_loop"
    /\ arm.i > arm.steps
    /\ LET ik_error == sim_calculate_IK_error(joints, arm.goal)
       IN /\ arm' = [arm EXCEPT !.error = ik_error]
          /\ out' = ee_outcome(ik_error, arm.threshold)
    /\ Return
    /\ UNCHANGED <<toolVars, engineVars, robotVars, pid, ticks, calls, rot,
                   wp, nav, jointVars, fnVars,
                   threads>>

\* a caller invokes sim_move_end_effector_to_goal_pose(goal, steps, threshold)
sim_move_end_effector_call(goal, steps, threshold) ==
    /\ TopLevel("ee_loop")
    /\ arm' = [NoArm EXCEPT !.op = "ee", !.goal = goal, !.steps = steps,
                            !.threshold = threshold,
                            !.start = engine_fk(joints)]
    /\ rot' = NoRot /\ wp' = NoWp /\ nav' = NoNav
    /\ UNCHANGED <<toolVars, engineVars, robotVars, pid, jointVars, fnVars,
                   threads>>

\* ------------------------------------------------------------------------
\* PyBulletRecorder (Visualization/blender_render/pyBulletSimRecorder.py)
\* ------------------------------------------------------------------------

\* PyBulletRecorder.__init__, with the add_keyframe calls made on the
\* instance so far: ever, and since the last reset
NewRecorder ==
    [frame_cnt |-> 0, states |-> <<>>, links |-> <<>>,
     added |-> 0, added_since_reset |-> 0]

\* the names of the LinkTrackers register_object builds for a body: one per
\* visual of the body's URDF, file_name + "_{body_id}_{link.name}_{i}"
Bodies == {1, 2}

body_trackers(body_id) ==
    IF body_id = 1
    THEN <<"robot_1_base_0", "robot_1_link_0">>
    ELSE <<"table_2_top_0">>

\* the current_state add_keyframe builds: for every registered link, under
\* its name, the link's keyframe stamped with the frame counter (the pose in
\* the keyframe is engine data and is left out)
current_state(links, frame_cnt) ==
    [name \in {links[i] : i \in DOMAIN links} |-> [frame |-> frame_cnt]]

\* the frame number add_keyframe stamps
add_keyframe_stamp(r) == r.frame_cnt

\* reset that also restarts the frame counter
reset_fields_restarting(r) == [r EXCEPT !.states = <<>>, !.frame_cnt = 0]

\* reset: self.states = []
reset_fields(r) == [r EXCEPT !.states = <<>>]

\* the "frames" list get_formatted_output returns for a link name
frames_of(states, name) ==
    LET held == SelectSeq(states, LAMBDA state : name \in DOMAIN state)
    IN [i \in 1..Len(held) |-> held[i][name]]

\* get_formatted_output: per registered link, the frames of the states that
\* hold it (type, mesh_path and mesh_scale are left out)
get_formatted_output(r) ==
    [name \in {r.links[i] : i \in DOMAIN r.links} |->
        [frames |-> frames_of(r.states, name)]]

simVars == <<engineVars, jointVars, ticks, robotVars, pid, pc, stack, calls,
             frameVars, out, fnVars, threads>>

register_object ==
    \E body_id \in Bodies :
        /\ Len(recorder.links) + Len(body_trackers(body_id)) <= MaxLinks
        /\ recorder' = [recorder EXCEPT
                            !.links = @ \o body_trackers(body_id)]
        /\ UNCHANGED <<simVars, kitchen>>

add_keyframe ==
    /\ recorder.added < MaxKeyframes
    /\ recorder' = [recorder EXCEPT
            !.states = Append(@, current_state(recorder.links,
                                               add_keyframe_stamp(recorder))),
            !.frame_cnt = @ + 1,
            !.added = @ + 1,
            !.added_since_reset = @ + 1]
    /\ UNCHANGED <<simVars, kitchen>>

reset ==
    /\ recorder' = [reset_fields(recorder) EXCEPT !.added_since_reset = 0]
    /\ UNCHANGED <<simVars, kitchen>>

\* ------------------------------------------------------------------------
\* Kitchen (utils/utils_Kitchen_object.py); drawer angles in tenths of a
\* radian
\* ------------------------------------------------------------------------

\* the elements open_drawer and close_drawer have a branch for
DrawerElements == {"elementA", "elementC", "elementD", "elementE"}

\* elementX_drawer_to_joint_id; an element without a table has no drawers
drawer_to_joint_id(elementName) ==
    CASE elementName = "elementA" ->
            (1 :> 17 @@ 2 :> 21 @@ 3 :> 26 @@ 4 :> 30 @@ 5 :> 36 @@ 6 :> 39
             @@ 7 :> 47 @@ 8 :> 52 @@ 9 :> 55 @@ 10 :> 57 @@ 11 :> 13)
      [] elementName = "elementC" -> (1 :> 1 @@ 2 :> 2 @@ 3 :> 3)
      [] elementName = "elementD" -> (1 :> 1)
      [] elementName = "elementE" -> (1 :> 1 @@ 2 :> 2)
      [] OTHER -> <<>>

\* elementX_drawer_to_joint_limits: <<closed, open>>
drawer_to_joint_limits(elementName) ==
    CASE elementName = "elementA" ->
            (1 :> <<0, 15>> @@ 2 :> <<0, -15>> @@ 3 :> <<0, -15>>
             @@ 4 :> <<0, 15>> @@ 5 :> <<0, 4>> @@ 6 :> <<0, 4>>
             @@ 7 :> <<0, 15>> @@ 8 :> <<0, -15>> @@ 9 :> <<0, 4>>
             @@ 10 :> <<0, 4>> @@ 11 :> <<0, 15>>)
      [] elementName = "elementC" ->
            (1 :> <<0, 15>> @@ 2 :> <<0, -3>> @@ 3 :> <<0, -3>>)
      [] elementName = "elementD" -> (1 :> <<0, -15>>)
      [] elementName = "elementE" -> (1 :> <<0, -15>> @@ 2 :> <<0, -15>>)
      [] OTHER -> <<>>

\* Kitchen.__init__: no drawer joint has been commanded; commands, run and
\* raised tell what the last call did, log lists the calls made
NewKitchen ==
    [target |-> <<>>, commands |-> <<>>, run |-> 0, raised |-> FALSE,
     log |-> <<>>]

\* close_drawer reading the open end of the limits
close_angle_open_end(elementName, drawer_id) ==
    drawer_to_joint_limits(elementName)[drawer_id][2]

\* open_angle = limits[drawer_id][1]
open_angle(elementName, drawer_id) ==
    drawer_to_joint_limits(elementName)[drawer_id][2]

\* close_angle = limits[drawer_id][0]
close_angle(elementName, drawer_id) ==
    drawer_to_joint_limits(elementName)[drawer_id][1]

\* the engine steps a call runs once the branches are done: close_drawer's
\* elementC branch runs the engine itself before the common run
drawer_run(op, elementName) ==
    IF op = "close" /\ elementName = "elementC"
    THEN 2 * drawer_ticks
    ELSE drawer_ticks

\* one open_drawer or close_drawer call: the table lookup of a branch
\* raises KeyError for a drawer_id it does not hold, before anything else is
\* done; otherwise the branch commands the joint and the engine is run; a
\* name without a branch only runs the engine
drawer_call(k, op, elementName, drawer_id) ==
    LET call == [op |-> op, elementName |-> elementName,
                 drawer_id |-> drawer_id]
        logged == [k EXCEPT !.log = Append(@, call)]
    IN IF elementName \in DrawerElements
       THEN IF drawer_id \notin DOMAIN drawer_to_joint_id(elementName)
            THEN [logged EXCEPT !.commands = <<>>, !.run = 0,
                                !.raised = TRUE]
            ELSE LET joint_id == drawer_to_joint_id(elementName)[drawer_id]
                     angle == IF op = "open"
                              THEN open_angle(elementName, drawer_id)
                              ELSE close_angle(elementName, drawer_id)
                 IN [logged EXCEPT
                        !.target = (<<elementName, joint_id>> :> angle) @@ @,
                        !.commands = <<[body |-> elementName,
                                        jointIndex |-> joint_id,
                                        targetPosition |-> angle]>>,
                        !.run = drawer_run(op, elementName),
                        !.raised = FALSE]
       ELSE [logged EXCEPT !.commands = <<>>,
                           !.run = drawer_run(op, elementName),
                           !.raised = FALSE]

ElementNames == DrawerElements \union {"elementB", "elementF"}

DrawerIds == 0..MaxDrawerId

open_drawer ==
    \E elementName \in ElementNames, drawer_id \in DrawerIds :
        /\ Len(kitchen.log) < MaxDrawerCalls
        /\ kitchen' = drawer_call(kitchen, "open", elementName, drawer_id)
        /\ UNCHANGED <<simVars, recorder>>

close_drawer ==
    \E elementName \in ElementNames, drawer_id \in DrawerIds :
        /\ Len(kitchen.log) < MaxDrawerCalls
        /\ kitchen' = drawer_call(kitchen, "close", elementName, drawer_id)
        /\ UNCHANGED <<simVars, recorder>>

\* ------------------------------------------------------------------------
\* Construction (Bestman_sim.__init__) and the callers' inputs
\* ------------------------------------------------------------------------

\* arm_init_jointValues
InitJoints == [k \in Joints |-> 0]

\* __init__: the controller is built from the configured gains and
\* target_distance; base and arm are loaded at init_pose and synchronised;
\* the arm is set to its initial joint values
InitRobot(yaw0, pos0, Kp, Ki, Kd, td) ==
    /\ base_pos = pos0
    /\ base_orn = angle_to_quaternion(yaw0)
    /\ arm_pos = sync_arm_pos(pos0)
    /\ arm_orn = angle_to_quaternion(yaw0)
    /\ joints = InitJoints
    /\ motor_target = InitJoints
    /\ ticks = 0
    /\ current_base_yaw = yaw0
    /\ base_rotated = FALSE
    /\ target_distance = td
    /\ pid = NewPid(Kp, Ki, Kd, td)
    /\ pc = "idle"
    /\ stack = <<>>
    /\ calls = 0
    /\ rot = NoRot
    /\ wp = NoWp
    /\ nav = NoNav
    /\ arm = NoArm
    /\ out = NoOut
    /\ threads = NoThreads
    /\ recorder = NewRecorder
    /\ kitchen = NewKitchen

NoFn ==
    /\ fn_in = <<>>
    /\ fn_out = <<>>

Coords == (-MaxWp)..MaxWp

Points == Coords \X Coords

Thresholds == MinThreshold..MaxThreshold

\* the points lie on one line through `position` parallel to an axis, so
\* that every bearing the call computes is a quarter turn
OnAxisLine(position, pts) ==
    \/ \A q \in pts : q[2] = position[2]
    \/ \A q \in pts : q[1] = position[1]

Range(f) == {f[i] : i \in DOMAIN f}

SeqsUpTo(S, n) == UNION {[1..m -> S] : m \in 0..n}

NavPoints == {<<MaxWp, 0>>, <<-1, 0>>}

NavGoals == {[pos |-> <<MaxWp, 0, z>>, yaw |-> HalfPi] : z \in 0..1}

NavThresholds == 1..MinThreshold

QuarterTurns == {-HalfPi, 0, HalfPi, PI}

JointVecs ==
    {[k \in Joints |-> v] : v \in 0..MaxJoint}
        \union {[k \in Joints |-> IF k = 1 THEN MaxJoint ELSE 0]}

ArmThresholds == 0..MaxTrackErr

CallRotateQuarter ==
    \E t \in QuarterTurns, g \in BOOLEAN :
        sim_rotate_base_call(t, g, default_step_size)

CallWaypoint ==
    \E w \in Points, th \in Thresholds :
        /\ OnAxisLine(base_pos, {w})
        /\ sim_move_base_to_waypoint_call(w, th)

CallNavigate ==
    \E goal \in NavGoals, path \in SeqsUpTo(NavPoints, MaxPath),
       th \in NavThresholds :
        /\ OnAxisLine(base_pos, Range(path))
        /\ sim_navigate_base_call(goal, path, th)

CallExecute ==
    \E tr \in SeqsUpTo(JointVecs, MaxTraj), th \in ArmThresholds :
        sim_execute_trajectory_call(tr, th)

CallMoveEndEffector ==
    \E goal \in JointVecs, st \in 0..MaxSteps, th \in ArmThresholds :
        sim_move_end_effector_call(goal, st, th)

\* ------------------------------------------------------------------------
\* Specification of the robot: base navigation and arm motion, the
\* controller configured as a proportional one
\* ------------------------------------------------------------------------

\* controller_cfg.target_distance
cfg_target_distance == 1

\* robot_cfg.init_pose[:3]
InitPosition == <<-MaxWp, 0, 0>>

Init ==
    /\ \E Kp \in 1..MaxKp :
          InitRobot(0, InitPosition, Kp, 0, 0, cfg_target_distance)
    /\ NoFn

NextBase ==
    \/ CallRotateQuarter
    \/ sim_rotate_base_step
    \/ sim_rotate_base_snap
    \/ sim_rotate_base_instant
    \/ CallWaypoint
    \/ sim_move_base_to_waypoint_exit
    \/ sim_move_base_to_waypoint_aim
    \/ sim_move_base_to_waypoint_move
    \/ sim_move_base_to_waypoint_iter
    \/ CallNavigate
    \/ sim_navigate_base_next
    \/ sim_navigate_base_rotate
    \/ sim_navigate_base_check

NextArm ==
    \/ CallExecute
    \/ sim_execute_trajectory_step
    \/ sim_execute_trajectory_finish
    \/ CallMoveEndEffector
    \/ sim_move_end_effector_step
    \/ sim_move_end_effector_finish

Next == NextBase \/ NextArm

Spec == Init /\ [][Next]_vars

\* ------------------------------------------------------------------------
\* Specification of the base navigator under every configured gain set
\* ------------------------------------------------------------------------

InitNav ==
    /\ \E Kp \in 0..MaxKp, Ki \in 0..MaxKi, Kd \in 0..MaxKd :
          InitRobot(0, InitPosition, Kp, Ki, Kd, cfg_target_distance)
    /\ NoFn

SpecNav == InitNav /\ [][NextBase]_vars

\* ------------------------------------------------------------------------
\* Specification of the rotation primitive alone
\* ------------------------------------------------------------------------

InitRot ==
    /\ \E yaw0 \in Yaws : InitRobot(yaw0, <<0, 0, 0>>, 0, 0, 0, 0)
    /\ NoFn

NextRot ==
    \/ CallRotate
    \/ sim_rotate_base_step
    \/ sim_rotate_base_snap
    \/ sim_rotate_base_instant

SpecRot == InitRot /\ [][NextRot]_vars

\* ------------------------------------------------------------------------
\* Specification applying shortest_angular_distance to drawn angle pairs
\* ------------------------------------------------------------------------

InitSad ==
    /\ InitRobot(0, <<0, 0, 0>>, 0, 0, 0, 0)
    /\ fn_in \in TargetYaws \X TargetYaws
    /\ fn_out = <<>>

ApplySad ==
    /\ fn_out = <<>>
    /\ fn_out' = <<shortest_angular_distance(fn_in[1], fn_in[2]),
                   shortest_angular_distance(fn_in[2], fn_in[1])>>
    /\ UNCHANGED <<toolVars, engineVars, jointVars, ticks, robotVars, pid, pc,
                   stack, calls, frameVars, out, fn_in, threads>>

NextSad == ApplySad

SpecSad == InitSad /\ [][NextSad]_vars

\* ------------------------------------------------------------------------
\* Specification applying the controller's calculate and set_goal to drawn
\* measurements and setpoints.  fn_in lists the calculate calls made, each
\* as <<measurement, setpoint at the call>>; fn_out lists what they returned.
\* ------------------------------------------------------------------------

InitPid ==
    /\ \E Kp \in 0..MaxKp, Ki \in 0..MaxKi, Kd \in 0..MaxKd, sp \in 0..1 :
          InitRobot(0, <<0, 0, 0>>, Kp, Ki, Kd, sp)
    /\ NoFn

PidCalculate ==
    \E m \in 0..MaxMeasure :
        /\ Len(fn_in) < MaxPidCalls
        /\ fn_in' = Append(fn_in, <<m, pid.setpoint>>)
        /\ fn_out' = Append(fn_out, pid_output(pid, m))
        /\ pid' = pid_calculate(pid, m)
        /\ UNCHANGED <<toolVars, engineVars, jointVars, ticks, robotVars, pc,
                       stack, calls, frameVars, out, threads>>

PidSetGoal ==
    \E sp \in 0..1 :
        /\ sp # pid.setpoint
        /\ pid' = pid_set_goal(pid, sp)
        /\ UNCHANGED <<toolVars, engineVars, jointVars, ticks, robotVars, pc,
                       stack, calls, frameVars, out, fnVars,
                   threads>>

NextPid == PidCalculate \/ PidSetGoal

SpecPid == InitPid /\ [][NextPid]_vars

\* ------------------------------------------------------------------------
\* Specification of two callers running gradual sim_rotate_base calls on
\* their own threads against the one robot.  A thread gives way to the
\* other only inside client.run(): what a thread executes from one engine
\* step to the next is one action.
\* ------------------------------------------------------------------------

\* another thread writes the base while thread u is inside its call
Overlap(t) ==
    [u \in Threads |->
        IF u # t /\ threads[u].pc \in {"in_run_loop", "in_run_snap"}
        THEN [threads[u] EXCEPT !.overlapped = TRUE]
        ELSE threads[u]]

\* thread t is handed sim_rotate_base(target_yaw); nothing has run yet
thread_call(t, target_yaw, step_size) ==
    /\ threads[t].pc = "idle"
    /\ threads' = [threads EXCEPT ![t] =
                      [NoThread EXCEPT !.pc = "ready",
                                       !.target_yaw = target_yaw,
                                       !.step_size = step_size]]
    /\ UNCHANGED <<toolVars, engineVars, jointVars, ticks, robotVars, pid, pc,
                   stack, calls, frameVars, out, fnVars>>

\* thread t runs from where it stands up to its next client.run(): at the
\* call's start angle_diff is computed first; then the loop test on the
\* thread's own angle_diff, and either one loop body or the snap
thread_step(t) ==
    LET th == threads[t]
        d == IF th.pc = "ready"
             THEN shortest_angular_distance(current_base_yaw, th.target_yaw)
             ELSE th.angle_diff
    IN /\ th.pc \in {"ready", "in_run_loop"}
       /\ ticks < MaxThreadTicks
       /\ IF Abs(d) > th.step_size
          THEN LET yaw == rotate_step_yaw(current_base_yaw, d, th.step_size)
               IN /\ current_base_yaw' = yaw
                  /\ base_orn' = angle_to_quaternion(yaw)
                  /\ threads' = [Overlap(t) EXCEPT ![t] =
                        [th EXCEPT !.pc = "in_run_loop",
                                   !.angle_diff = shortest_angular_distance(
                                                      yaw, th.target_yaw)]]
          ELSE /\ current_base_yaw' = th.target_yaw
               /\ base_orn' = rotate_snap_orn(base_orn, th.target_yaw)
               /\ threads' = [Overlap(t) EXCEPT ![t] =
                     [th EXCEPT !.pc = "in_run_snap", !.angle_diff = d]]
       /\ base_pos' = base_pos
       /\ arm_pos' = sync_arm_pos(base_pos)
       /\ arm_orn' = base_orn'
       /\ ticks' = ticks + 1
       /\ UNCHANGED <<toolVars, jointVars, base_rotated, target_distance, pid,
                      pc, stack, calls, frameVars, out, fnVars>>

\* the client.run() after the snap is over: thread t's call returns
thread_return(t) ==
    /\ threads[t].pc = "in_run_snap"
    /\ LET th == threads[t]
       IN threads' = [threads EXCEPT ![t] =
             [th EXCEPT !.pc = "done",
                        !.post =
                            /\ base_orn = angle_to_quaternion(th.target_yaw)
                            /\ current_base_yaw = th.target_yaw]]
    /\ UNCHANGED <<toolVars, engineVars, jointVars, ticks, robotVars, pid, pc,
                   stack, calls, frameVars, out, fnVars>>

ThreadCall ==
    \E t \in Threads, target_yaw \in Yaws :
        thread_call(t, target_yaw, default_step_size)

ThreadStep == \E t \in Threads : thread_step(t)

ThreadReturn == \E t \in Threads : thread_return(t)

InitConc ==
    /\ \E yaw0 \in Yaws : InitRobot(yaw0, <<0, 0, 0>>, 0, 0, 0, 0)
    /\ NoFn

NextConc == ThreadCall \/ ThreadStep \/ ThreadReturn

SpecConc == InitConc /\ [][NextConc]_vars

\* ------------------------------------------------------------------------
\* Specifications of the recorder and of the kitchen, each alone
\* ------------------------------------------------------------------------

InitTools ==
    /\ InitRobot(0, <<0, 0, 0>>, 0, 0, 0, 0)
    /\ NoFn

NextRec == register_object \/ add_keyframe \/ reset

SpecRec == InitTools /\ [][NextRec]_vars

NextKitchen == open_drawer \/ close_drawer

SpecKitchen == InitTools /\ [][NextKitchen]_vars

\* ------------------------------------------------------------------------
\* Specification of the end effector's rotation alone
\* ------------------------------------------------------------------------

Angles == (-MaxAngle)..MaxAngle

CallRotateEndEffector ==
    \E angle \in Angles : sim_rotate_end_effector_call(angle)

NextRotEE ==
    \/ CallRotateEndEffector
    \/ sim_rotate_end_effector_command
    \/ sim_rotate_end_effector_wait
    \/ sim_rotate_end_effector_break

SpecRotEE == InitTools /\ [][NextRotEE]_vars

\* ------------------------------------------------------------------------
\* Properties of the rotation primitive
\* ------------------------------------------------------------------------

\* the step on which a gradual sim_rotate_base call returns
GradualReturn == pc = "rotate" /\ rot.gradual /\ pc' # "rotate"

\* C1: when a gradual sim_rotate_base(target_yaw) returns, the orientation
\* last applied to the base is the quaternion of target_yaw, current_base_yaw
\* equals target_yaw, and the loop was left with |angle_diff| <= step_size.
C1_SnapToTarget ==
    [][GradualReturn =>
          /\ base_orn' = angle_to_quaternion(rot.target_yaw)
          /\ current_base_yaw' = rot.target_yaw
          /\ Abs(rot.angle_diff) <= rot.step_size]_vars

\* a gradual call has returned after at least two loop passes, short of the
\* target by a remainder the snap had to close
C1_Witness ==
    /\ pc = "idle"
    /\ rot.gradual
    /\ rot.iters >= 2
    /\ rot.angle_diff # 0
    /\ base_orn = angle_to_quaternion(rot.target_yaw)
    /\ current_base_yaw = rot.target_yaw

CeilDiv(n, d) == (n + d - 1) \div d

Sign(v) == IF v > 0 THEN 1 ELSE -1

\* C2: the gradual loop terminates: each pass moves current_base_yaw by
\* step_size in the direction of the sign of angle_diff and reduces
\* |angle_diff| by step_size; the passes never add up to more than the
\* shortest distance computed at entry (at most a half turn), their number
\* is at most ceil(pi/step_size), and a running call always has its next
\* step to take (another pass, or the snap that returns).
C2_LoopTerminates ==
    /\ [][(pc = "rotate" /\ rot'.iters = rot.iters + 1) =>
            /\ Abs(rot'.angle_diff) = Abs(rot.angle_diff) - rot.step_size
            /\ shortest_angular_distance(current_base_yaw, current_base_yaw')
                 = Sign(rot.angle_diff) * rot.step_size]_vars
    /\ [](/\ rot.iters * rot.step_size + Abs(rot.angle_diff) = Abs(rot.diff0)
          /\ Abs(rot.diff0) <= PI
          /\ rot.iters <= CeilDiv(PI, rot.step_size))
    /\ []((pc = "rotate" /\ rot.gradual) =>
             ENABLED (sim_rotate_base_step \/ sim_rotate_base_snap))

\* a gradual call that started a half turn away, stepped in the negative
\* direction and has returned
C2_Witness ==
    /\ pc = "idle"
    /\ rot.gradual
    /\ rot.diff0 = -PI
    /\ rot.iters >= 2

\* ------------------------------------------------------------------------
\* Properties of shortest_angular_distance
\* ------------------------------------------------------------------------

Applied == fn_out # <<>>

\* the two angles are an odd number of half turns apart
HalfTurnApart == (fn_in[2] - fn_in[1]) % TwoPi = PI

\* C3 (as claimed): shortest_angular_distance always lies in (-pi, pi].
C3_Original ==
    Applied => (-PI < fn_out[1] /\ fn_out[1] <= PI)

\* C3 (amended): shortest_angular_distance always lies in [-pi, pi), and
\* for angles exactly half a turn apart it is -pi.
C3_RangeClosedBelow ==
    Applied =>
        /\ -PI <= fn_out[1] /\ fn_out[1] < PI
        /\ HalfTurnApart => fn_out[1] = -PI

\* the function applied to a pair three half turns apart
C3_Witness ==
    /\ Applied
    /\ fn_in[2] - fn_in[1] = 3 * PI
    /\ fn_out[1] = -PI

\* C4 (as claimed): d(a,b) = -d(b,a) for all angles.
C4_Original ==
    Applied => fn_out[1] = -fn_out[2]

\* C4 (amended): d(a,b) = -d(b,a) for all angles that are not an odd number
\* of half turns apart; for those, d(a,b) = d(b,a) = -pi.
C4_AntisymmetricOffHalfTurn ==
    Applied =>
        IF HalfTurnApart
        THEN fn_out[1] = -PI /\ fn_out[2] = -PI
        ELSE fn_out[1] = -fn_out[2]

\* the function applied both ways to a pair more than a turn apart whose
\* distance is not zero
C4_Witness ==
    /\ Applied
    /\ ~HalfTurnApart
    /\ fn_in[2] - fn_in[1] > TwoPi
    /\ fn_out[1] > 0
    /\ fn_out[1] = -fn_out[2]

\* ------------------------------------------------------------------------
\* Properties of the PID controller and of the navigator's use of it
\* ------------------------------------------------------------------------

Last(q) == q[Len(q)]

\* C5: calculate(measurement) is a function of the gains, the setpoint, the
\* accumulator, the previous error and the measurement: with error =
\* setpoint - measurement it adds error to the accumulator, returns
\* Kp*error + Ki*accumulator + Kd*(error - previous_error) and stores error
\* as previous_error; with Kp=1, Ki=0, Kd=0, setpoint=0, calculate(5) then
\* calculate(3) return -5 then -3.
C5_Calculate ==
    /\ [][Len(fn_in') = Len(fn_in) + 1 =>
            LET m == Last(fn_in')[1]
                error == pid.setpoint - m
            IN /\ pid' = [pid EXCEPT
                            !.integral_accumulator = @ + error,
                            !.previous_error = error]
               /\ Last(fn_out') =
                      RoundDiv(pid.Kp * error
                               + pid.Ki * (pid.integral_accumulator + error)
                               + pid.Kd * (error - pid.previous_error),
                               KDen)]_vars
    /\ []((/\ pid.Kp = KDen /\ pid.Ki = 0 /\ pid.Kd = 0
           /\ fn_in = <<<<5, 0>>, <<3, 0>>>>)
          => fn_out = <<-5, -3>>)

\* a controller with Kp = 1, Ki = Kd = 0 and setpoint 0 after calculate(5),
\* calculate(3)
C5_Witness ==
    /\ pid.Kp = KDen /\ pid.Ki = 0 /\ pid.Kd = 0
    /\ fn_in = <<<<5, 0>>, <<3, 0>>>>
    /\ fn_out = <<-5, -3>>
    /\ pid.integral_accumulator = -8
    /\ pid.previous_error = -3

\* C6: set_goal changes only the setpoint, and the navigator never resets
\* the controller: the only steps that change the controller are the loop
\* passes of sim_move_base_to_waypoint, each of which sets the setpoint to 0
\* and adds its error (0 - distance) to the accumulator it found; entering
\* the next waypoint or the next navigation call leaves accumulator and
\* previous error as the last pass left them.
C6_AccumulatorCarried ==
    [][pid' # pid =>
          /\ pc = "wp_loop"
          /\ pid' = [pid EXCEPT
                       !.setpoint = 0,
                       !.integral_accumulator = @ + (0 - wp'.distance),
                       !.previous_error = 0 - wp'.distance]]_vars

\* the second waypoint of a navigation that is itself the second call: its
\* first pass is about to run on an accumulator built up before
C6_Witness ==
    /\ calls = 2
    /\ Len(nav.path) = 2
    /\ nav.i = 3
    /\ pc = "wp_loop"
    /\ wp.cnt = 1
    /\ pid.integral_accumulator < -MaxWp
    /\ pid.setpoint = 0

InWaypoint == pc \in {"wp_loop", "wp_move"}

WaypointReturned == pc \in {"idle", "nav_loop"}

\* C7: whenever sim_move_base_to_waypoint returns, the distance read on the
\* last loop pass is strictly below the threshold; the loop has no other
\* exit.
C7_ReturnsBelowThreshold ==
    [][(InWaypoint /\ WaypointReturned') =>
          /\ pc = "wp_loop"
          /\ wp'.distance = wp_distance(base_pos, wp.waypoint)
          /\ wp'.distance < wp.threshold
          /\ base_pos' = base_pos]_vars

\* a call that returned after at least two passes, short of the waypoint
C7_Witness ==
    /\ pc = "idle"
    /\ wp.cnt >= 3
    /\ wp.distance > 0
    /\ wp.distance < wp.threshold

\* a proportional gain in (0, 1], no integral and no derivative gain
StableGains == pid.Kp \in 1..KDen /\ pid.Ki = 0 /\ pid.Kd = 0

\* the steps a running sim_move_base_to_waypoint call can take, those of
\* its rotation included
WaypointStep ==
    \/ sim_move_base_to_waypoint_exit
    \/ sim_move_base_to_waypoint_aim
    \/ sim_move_base_to_waypoint_move
    \/ sim_move_base_to_waypoint_iter
    \/ sim_rotate_base_step
    \/ sim_rotate_base_snap

\* C8: under a stable gain set (0 < Kp <= 1, Ki = Kd = 0)
\* sim_move_base_to_waypoint terminates after a bounded number of passes:
\* every pass brings the base closer to the waypoint, the passes number at
\* most the initial distance in lattice units, the one rotation takes at
\* most ceil(pi/step_size) steps, and the running call always has its next
\* step to take until it returns.
C8_TerminatesUnderStableGains ==
    /\ [][(StableGains /\ InWaypoint /\ base_pos' # base_pos) =>
            wp_distance(base_pos', wp.waypoint)
                < wp_distance(base_pos, wp.waypoint)]_vars
    /\ []((StableGains /\ InWaypoint) =>
             /\ wp.cnt - 1 <= wp.dist0
             /\ wp.cnt - 1 < MaxCnt - 1)
    /\ []((StableGains /\ wp.rotations > 0) =>
             rot.iters <= CeilDiv(PI, rot.step_size))
    /\ []((StableGains /\ (InWaypoint \/ (pc = "rotate" /\ wp.rotations > 0)))
             => ENABLED WaypointStep)

\* a call under Kp = 1/2 that started at least four units away and returned
\* after two passes
C8_Witness ==
    /\ StableGains
    /\ pid.Kp < KDen
    /\ pc = "idle"
    /\ wp.dist0 >= 2 * MaxWp
    /\ wp.cnt >= 3
    /\ wp.distance < wp.threshold

\* ------------------------------------------------------------------------
\* Properties of the outcomes: warnings and errors
\* ------------------------------------------------------------------------

\* C9 (as claimed): sim_execute_trajectory with an empty trajectory issues
\* no joint command, does not index into the empty sequence, raises no
\* error and completes normally.
C9_EmptyTrajectoryIsNoOp ==
    (pc = "idle" /\ arm.op = "exec" /\ Len(arm.trajectory) = 0) =>
        /\ arm.commanded = <<>>
        /\ ~out.error
        /\ out.info

\* C10: no navigation or arm-motion operation ends in an error because a
\* threshold was violated: sim_rotate_base and sim_move_base_to_waypoint
\* print and raise nothing; the final check of sim_navigate_base, of
\* sim_move_end_effector_to_goal_pose and of sim_execute_trajectory prints
\* the warning when the error is above the threshold, then the closing
\* message, and returns without touching the pose or joint state achieved.
C10_ThresholdsOnlyWarn ==
    /\ [][(pc \in {"rotate", "wp_loop", "wp_move", "nav_loop"}) =>
            out' = out]_vars
    /\ [][pc = "nav_check" =>
            /\ out'.info /\ ~out'.error
            /\ sim_calculate_nav_error(base_pos, nav.goal.pos)
                  > nav.threshold => out'.warning
            /\ pc' = "idle"
            /\ UNCHANGED <<engineVars, jointVars, current_base_yaw>>]_vars
    /\ [][(pc = "ee_loop" /\ pc' = "idle") =>
            /\ out'.info /\ ~out'.error
            /\ sim_calculate_IK_error(joints, arm.goal) > arm.threshold
                  => out'.warning
            /\ UNCHANGED <<engineVars, jointVars, current_base_yaw>>]_vars
    /\ [][(pc = "exec_loop" /\ pc' = "idle" /\ Len(arm.trajectory) > 0) =>
            /\ out'.info /\ ~out'.error
            /\ (\E k \in Joints :
                   Abs(joints'[k] - Last(arm.trajectory)[k]) > arm.threshold)
                  => out'.warning
            /\ UNCHANGED <<engineVars, motor_target, current_base_yaw>>]_vars

\* a navigation over two waypoints that ended further from its goal than
\* its threshold: warned, and done
C10_Witness ==
    /\ pc = "idle"
    /\ Len(nav.path) = 2
    /\ nav.ik_error > nav.threshold
    /\ out.warning
    /\ out.info
    /\ ~out.error

\* ------------------------------------------------------------------------
\* Properties of sim_navigate_base
\* ------------------------------------------------------------------------

\* a sim_navigate_base call is running or was the last call to return
InNavigate == nav.goal \in NavGoals

\* C11: sim_navigate_base hands the points of path to
\* sim_move_base_to_waypoint strictly in list order, one call per point,
\* the next call starting only when the previous one has returned with the
\* base within its threshold of the previous point; the rotation to the
\* goal's yaw is made exactly once, after the last point, and returns into
\* the error check; with an empty path no waypoint call is made and the base
\* is not translated.
C11_VisitsPathInOrder ==
    /\ [](InNavigate =>
            /\ Len(nav.visited) = nav.i - 1
            /\ nav.visited = SubSeq(nav.path, 1, Len(nav.visited))
            /\ nav.rotations <= 1
            /\ (nav.rotations = 1 => nav.visited = nav.path)
            /\ (pc = "nav_check" => nav.rotations = 1)
            /\ (pc = "idle" =>
                  /\ nav.visited = nav.path
                  /\ nav.rotations = 1
                  /\ out.info)
            /\ (Len(nav.path) = 0 => wp = NoWp))
    /\ [][(pc = "nav_loop" /\ pc' = "wp_loop") =>
            /\ wp'.waypoint = nav.path[nav.i]
            /\ nav.rotations = 0
            /\ (nav.i > 1 =>
                  wp_distance(base_pos, nav.path[nav.i - 1])
                      < default_wp_threshold)]_vars
    /\ [][(pc = "nav_loop" /\ pc' = "rotate") =>
            /\ nav.visited = nav.path
            /\ rot'.target_yaw = nav.goal.yaw
            /\ Head(stack') = "nav_check"
            /\ (Len(nav.path) > 0 =>
                  wp_distance(base_pos, Last(nav.path))
                      < default_wp_threshold)]_vars
    /\ [][(InNavigate /\ Len(nav.path) = 0) => base_pos' = base_pos]_vars

\* a navigation over two different points that has returned
C11_Witness ==
    /\ pc = "idle"
    /\ InNavigate
    /\ Len(nav.path) = 2
    /\ nav.path[1] # nav.path[2]
    /\ nav.visited = nav.path
    /\ nav.rotations = 1
    /\ wp_distance(base_pos, nav.path[2]) < default_wp_threshold

\* the positional error of the base against the goal of the navigation
NavError == sim_calculate_nav_error(base_pos, nav.goal.pos)

NavigateReturned == pc = "idle" /\ InNavigate

\* C12 (as claimed): sim_navigate_base prints the warning if and only if
\* the final positional error is strictly greater than threshold; an error
\* equal to threshold prints no warning.
C12_Original ==
    NavigateReturned => (out.warning <=> NavError > nav.threshold)

\* C12 (amended): sim_navigate_base prints the warning if and only if the
\* final positional error is greater than or equal to threshold; an error
\* equal to threshold is warned about.
C12_WarnsAtOrAboveThreshold ==
    NavigateReturned =>
        /\ nav.ik_error = NavError
        /\ out.warning <=> NavError >= nav.threshold

\* a navigation that ended with an error exactly equal to its threshold
C12_Witness ==
    /\ NavigateReturned
    /\ NavError = nav.threshold
    /\ NavError > 0
    /\ out.warning

\* ------------------------------------------------------------------------
\* Properties of the arm operations
\* ------------------------------------------------------------------------

EndEffectorReturned == pc = "idle" /\ arm.op = "ee"

\* C13 (as claimed): for every steps >= 1 the poses handed to inverse
\* kinematics by sim_move_end_effector_to_goal_pose start at the start pose
\* (t = 0) and end at the goal pose (t = 1).
C13_SamplesEndAtGoal ==
    (EndEffectorReturned /\ arm.steps >= 1) =>
        /\ Len(arm.commanded) = arm.steps
        /\ arm.commanded[1] = arm.start
        /\ Last(arm.commanded) = arm.goal

ExecuteReturned == pc = "idle" /\ arm.op = "exec"

\* the joints whose achieved value is further than the threshold from the
\* last entry of the trajectory
JointsOff ==
    {k \in Joints :
        Abs(joints[k] - Last(arm.trajectory)[k]) > arm.threshold}

\* C14: sim_execute_trajectory commands the entries of a non-empty
\* trajectory strictly in list order, one position command per entry, each
\* followed by the settling ticks; after the final settling ticks it counts
\* the joints whose |achieved - trajectory[-1]| is strictly greater than
\* threshold and warns exactly when that count is above 0.
C14_CommandsInOrderAndCounts ==
    /\ [](arm.op = "exec" =>
            /\ Len(arm.commanded) = arm.i - 1
            /\ arm.commanded = SubSeq(arm.trajectory, 1, Len(arm.commanded))
            /\ ticks = arm_settle_ticks * Len(arm.commanded)
                         + (IF pc = "idle" THEN arm_settle_ticks ELSE 0))
    /\ []((ExecuteReturned /\ Len(arm.trajectory) > 0) =>
            /\ arm.commanded = arm.trajectory
            /\ motor_target = Last(arm.trajectory)
            /\ arm.error = Cardinality(JointsOff)
            /\ (out.warning <=> Cardinality(JointsOff) > 0)
            /\ out.info)
    /\ [][(pc = "exec_loop" /\ pc' = "exec_loop") =>
            /\ arm'.i = arm.i + 1
            /\ motor_target' = arm.trajectory[arm.i]]_vars

\* a trajectory of two different entries was executed and exactly one joint
\* ended further than the threshold from the last entry
C14_Witness ==
    /\ ExecuteReturned
    /\ Len(arm.trajectory) = 2
    /\ arm.trajectory[1] # arm.trajectory[2]
    /\ arm.commanded = arm.trajectory
    /\ Cardinality(JointsOff) = 1
    /\ \E k \in Joints :
          Abs(joints[k] - Last(arm.trajectory)[k]) = arm.threshold
    /\ out.warning

\* ------------------------------------------------------------------------
\* Properties of the passes of sim_move_base_to_waypoint
\* ------------------------------------------------------------------------

\* C15: within one sim_move_base_to_waypoint call sim_rotate_base is
\* invoked at most once: on the first pass, before the first translation,
\* towards the bearing of the waypoint, exactly when the initial distance is
\* not below the threshold; later passes translate without rotating; every
\* call starts with base_rotated reset to False.
C15_RotatesOncePerCall ==
    /\ [](wp.rotations <= 1)
    /\ [][(pc' = "wp_loop" /\ pc \in {"idle", "nav_loop"}) =>
            /\ ~base_rotated'
            /\ wp'.rotations = 0
            /\ wp'.cnt = 1]_vars
    /\ [][wp'.rotations > wp.rotations =>
            /\ pc = "wp_loop" /\ pc' = "rotate"
            /\ wp.cnt = 1
            /\ ~base_rotated
            /\ base_pos' = base_pos
            /\ rot'.target_yaw = Atan2(wp.waypoint[2] - base_pos[2],
                                       wp.waypoint[1] - base_pos[1])]_vars
    /\ [][(InWaypoint /\ wp'.cnt > wp.cnt) =>
            /\ wp.rotations = 1
            /\ base_rotated'
            /\ base_orn' = base_orn
            /\ rot' = rot
            /\ (pc = "wp_move" <=> wp.cnt = 1)]_vars
    /\ [][(InWaypoint /\ WaypointReturned') =>
            wp.rotations = (IF wp.dist0 >= wp.threshold THEN 1 ELSE 0)]_vars

\* the second waypoint call of a navigation has rotated once and made at
\* least two translations
C15_Witness ==
    /\ InNavigate
    /\ Len(nav.visited) = 2
    /\ pc = "wp_loop"
    /\ wp.rotations = 1
    /\ wp.cnt >= 3
    /\ base_rotated

\* every gain of the controller is positive
PositiveGains == pid.Kp > 0 /\ pid.Ki > 0 /\ pid.Kd > 0

\* C16 (as claimed): under positive gains every translation
\* sim_action(-output) of sim_move_base_to_waypoint leaves the base closer
\* to the waypoint than it was before the step.
C16_EveryStepApproaches ==
    [][(PositiveGains /\ InWaypoint /\ wp'.cnt > wp.cnt) =>
          wp_distance(base_pos', wp.waypoint)
              < wp_distance(base_pos, wp.waypoint)]_vars

\* a sim_move_base_to_waypoint call made by a caller directly is running
TopWaypoint == InWaypoint /\ nav = NoNav

\* the engine steps issued inside the call's one rotation: one per loop
\* pass and one after the snap
RotationTicks == IF wp.rotations = 1 THEN rot.iters + 1 ELSE 0

\* C17: sim_move_base_to_waypoint forces an engine step on exactly the
\* passes whose 1-based index is a multiple of 20 and one more after the
\* loop exits: after k translations it has issued floor(k/20) engine steps
\* of its own, and floor(k/20) + 1 when it returns, those of its rotation
\* not counted.
C17_EngineStepsOfOwn ==
    /\ [](TopWaypoint =>
            ticks = (wp.cnt - 1) \div sync_period + RotationTicks)
    /\ [][(InWaypoint /\ wp'.cnt > wp.cnt) =>
            ticks' = ticks + (IF wp.cnt \in {sync_period, 2 * sync_period}
                              THEN 1 ELSE 0)]_vars
    /\ [][(InWaypoint /\ WaypointReturned') => ticks' = ticks + 1]_vars
    /\ [][(TopWaypoint /\ pc' = "idle") =>
            ticks' = (wp.cnt - 1) \div sync_period + 1 + RotationTicks]_vars

\* a call that has made forty translations and issued two engine steps of
\* its own
C17_Witness ==
    /\ TopWaypoint
    /\ wp.cnt = 41
    /\ wp.rotations = 1
    /\ ticks = 2 + RotationTicks

\* C18: sim_move_end_effector_to_goal_pose(goal, steps) issues exactly
\* `steps` inverse-kinematics conversions and joint commands, sample after
\* sample in increasing t, each followed by 40 engine ticks; the next
\* command is issued whatever joint state the previous one achieved and
\* nothing is reported in between; only after the last command is the
\* positional error against the goal computed, and a warning is printed if
\* it exceeds threshold.
C18_FireAndCheck ==
    /\ [](arm.op = "ee" =>
            /\ Len(arm.commanded) = arm.i - 1
            /\ Len(arm.commanded) <= arm.steps
            /\ ticks = arm_settle_ticks * Len(arm.commanded)
            /\ \A k \in 1..Len(arm.commanded) :
                  arm.commanded[k] =
                      <<interpolate(arm.start[1], arm.goal[1], k - 1,
                                    arm.steps),
                        interpolate(arm.start[2], arm.goal[2], k - 1,
                                    arm.steps)>>)
    /\ []((pc = "ee_loop" /\ arm.i <= arm.steps) =>
            /\ out = NoOut
            /\ arm.error = 0
            /\ ENABLED sim_move_end_effector_step)
    /\ [][(pc = "ee_loop" /\ pc' = "ee_loop") =>
            /\ motor_target' = sim_cartesian_to_joints(Last(arm'.commanded))
            /\ out' = out]_vars
    /\ [](EndEffectorReturned =>
            /\ Len(arm.commanded) = arm.steps
            /\ arm.error = sim_calculate_IK_error(joints, arm.goal)
            /\ (arm.error > arm.threshold => out.warning)
            /\ out.info)

\* a move in three samples whose commands differ, ended off the goal by
\* more than the threshold and warned
C18_Witness ==
    /\ EndEffectorReturned
    /\ arm.steps = 3
    /\ arm.commanded[1] # arm.commanded[3]
    /\ ticks = 3 * arm_settle_ticks
    /\ arm.error > arm.threshold
    /\ out.warning

\* ------------------------------------------------------------------------
\* Properties of concurrent callers
\* ------------------------------------------------------------------------

\* C19: a gradual sim_rotate_base call that no other thread's call
\* overlapped returns with the base's orientation and current_base_yaw at
\* its target, as in every sequential execution; calls of two threads
\* interleaved at their engine steps have no such guarantee (the witness is
\* a call that returned with the postcondition violated).
C19_PostconditionNeedsIsolation ==
    \A t \in Threads :
        (threads[t].pc = "done" /\ ~threads[t].overlapped)
            => threads[t].post

\* thread 1's call has returned while thread 2, rotating to another target,
\* had moved the base under it: on return neither the orientation nor
\* current_base_yaw was thread 1's target
C19_Witness ==
    /\ threads[1].pc = "done"
    /\ threads[1].overlapped
    /\ ~threads[1].post
    /\ threads[2].target_yaw # threads[1].target_yaw
    /\ current_base_yaw # threads[1].target_yaw
    /\ base_orn # angle_to_quaternion(threads[1].target_yaw)

\* ------------------------------------------------------------------------
\* Properties of the yaw bookkeeping
\* ------------------------------------------------------------------------

\* C20 (as claimed): after any sequence of sim_rotate_base calls, gradual
\* or not, current_base_yaw is the yaw of the orientation last applied to
\* the base (up to whole turns).
C20_BookkeepingTracksBase ==
    pc = "idle" =>
        (current_base_yaw - getEulerYaw(base_orn)) % TwoPi = 0

\* C21 (as claimed): current_base_yaw always lies in (-pi, pi], after every
\* loop step and every return of sim_rotate_base, for any target_yaw.
C21_Original == -PI < current_base_yaw /\ current_base_yaw <= PI

\* C21 (amended): every pass of the rotation loop leaves current_base_yaw in
\* [-pi, pi) (-pi included, +pi excluded); a gradual call returns with
\* current_base_yaw equal to target_yaw as it was passed, not normalised,
\* so inside that range only if the target is; a non-gradual call leaves
\* current_base_yaw as it was.
C21_NormalisedInLoopOnly ==
    /\ [][(pc = "rotate" /\ rot'.iters = rot.iters + 1) =>
            /\ -PI <= current_base_yaw'
            /\ current_base_yaw' < PI
            /\ (current_base_yaw' - current_base_yaw) % TwoPi
                  \in {rot.step_size % TwoPi, (-rot.step_size) % TwoPi}]_vars
    /\ [][GradualReturn => current_base_yaw' = rot.target_yaw]_vars
    /\ [][(pc = "rotate" /\ ~rot.gradual) =>
            current_base_yaw' = current_base_yaw]_vars
    /\ []((pc = "rotate" /\ rot.gradual /\ rot.iters > 0) =>
            (-PI <= current_base_yaw /\ current_base_yaw < PI))

\* a gradual call to a target above pi has returned after at least two loop
\* passes: current_base_yaw is the target, outside [-pi, pi)
C21_Witness ==
    /\ pc = "idle"
    /\ rot.gradual
    /\ rot.iters >= 2
    /\ rot.target_yaw > PI
    /\ current_base_yaw = rot.target_yaw

\* ------------------------------------------------------------------------
\* Properties of the base pose and the arm mounted on it
\* ------------------------------------------------------------------------

\* C22: base and arm stay aligned: at every engine step the base methods
\* issue, and in every state between two of them, the arm's (x, y) and
\* orientation equal the base's and the arm's z is arm_place_height; every
\* reset of the base pose is followed by sim_sync_base_arm_pose before the
\* next engine step.
C22_BaseArmAligned ==
    /\ arm_pos[1] = base_pos[1]
    /\ arm_pos[2] = base_pos[2]
    /\ arm_pos[3] = arm_place_height
    /\ arm_orn = base_orn

\* the base has been rotated and translated inside a waypoint call, engine
\* steps were issued, and the arm stands on it
C22_Witness ==
    /\ pc = "wp_loop"
    /\ wp.cnt >= 3
    /\ ticks > 0
    /\ base_pos # InitPosition
    /\ base_orn # angle_to_quaternion(0)
    /\ arm_pos = <<base_pos[1], base_pos[2], arm_place_height>>
    /\ arm_orn = base_orn
    /\ arm_pos[3] # base_pos[3]

\* C23: frame conditions of the base primitives: every step of
\* sim_rotate_base (loop pass, snap, non-gradual) leaves the base position,
\* the joints and the controller unchanged; every sim_action(-output) of a
\* waypoint pass adds -output*cos(yaw) to x and -output*sin(yaw) to y for
\* the base's current heading yaw, and leaves z, the base orientation and
\* current_base_yaw unchanged.
C23_FrameConditions ==
    /\ [][pc = "rotate" =>
            /\ base_pos' = base_pos
            /\ UNCHANGED <<jointVars, pid, target_distance, base_rotated>>]_vars
    /\ [][(InWaypoint /\ wp'.cnt > wp.cnt) =>
            /\ base_pos' =
                 <<base_pos[1] - wp'.output * Cos(getEulerYaw(base_orn)),
                   base_pos[2] - wp'.output * Sin(getEulerYaw(base_orn)),
                   base_pos[3]>>
            /\ base_orn' = base_orn
            /\ current_base_yaw' = current_base_yaw]_vars

\* the base was translated along the y axis by a waypoint pass
C23_Witness ==
    /\ pc = "wp_loop"
    /\ wp.cnt >= 2
    /\ wp.output # 0
    /\ getEulerYaw(base_orn) \in {HalfPi, -HalfPi}
    /\ base_pos[2] # InitPosition[2]
    /\ base_pos[1] = InitPosition[1]

\* C24: the threshold passed to sim_navigate_base governs only the final
\* warning: every waypoint call it makes runs with
\* sim_move_base_to_waypoint's default threshold, whatever the caller
\* passed, and a navigation over a non-empty path returns with the base
\* closer to the last path point than that default, where the last waypoint
\* loop left it.
C24_WaypointsUseDefaultThreshold ==
    /\ []((InNavigate /\ Len(nav.visited) > 0) =>
            wp.threshold = default_wp_threshold)
    /\ [][(InNavigate /\ pc = "wp_loop" /\ pc' = "nav_loop") =>
            /\ wp'.distance = wp_distance(base_pos, Last(nav.visited))
            /\ wp'.distance < default_wp_threshold]_vars
    /\ []((NavigateReturned /\ Len(nav.path) > 0) =>
            /\ wp.distance = wp_distance(base_pos, Last(nav.path))
            /\ wp.distance < default_wp_threshold
            /\ (out.warning <=> NavError >= nav.threshold))

\* a navigation called with a threshold other than the default returned
\* with the base short of the last path point by no less than its own
\* threshold, yet within the default
C24_Witness ==
    /\ NavigateReturned
    /\ Len(nav.path) > 0
    /\ nav.threshold < default_wp_threshold
    /\ wp.threshold = default_wp_threshold
    /\ wp.distance >= nav.threshold
    /\ wp.distance < default_wp_threshold

\* a waypoint call is entered from its caller
WaypointEntered == pc \in {"idle", "nav_loop"} /\ pc' = "wp_loop"

\* the running waypoint call found the base within the threshold on entry
StartedWithin == pc = "wp_loop" /\ wp.dist0 < wp.threshold

\* C25: sim_move_base_to_waypoint called with the base already within
\* threshold of the waypoint does nothing to the robot or the controller:
\* its entry and its one loop pass leave the controller, the base and arm
\* pose and current_base_yaw unchanged and base_rotated False, no rotation
\* or translation is made, and the call returns after exactly one engine
\* step.
C25_WithinThresholdIsNoOp ==
    /\ [][WaypointEntered =>
            /\ pid' = pid
            /\ ~base_rotated'
            /\ wp'.dist0 = wp_distance(base_pos, wp'.waypoint)
            /\ UNCHANGED <<engineVars, jointVars, current_base_yaw>>]_vars
    /\ [](StartedWithin =>
            /\ wp.cnt = 1
            /\ wp.rotations = 0
            /\ ~base_rotated
            /\ (nav = NoNav => ticks = 0)
            /\ ENABLED sim_move_base_to_waypoint_exit
            /\ ~ENABLED sim_move_base_to_waypoint_aim
            /\ ~ENABLED sim_move_base_to_waypoint_iter)
    /\ [][StartedWithin =>
            /\ WaypointReturned'
            /\ pid' = pid
            /\ ~base_rotated'
            /\ wp'.rotations = 0
            /\ ticks' = ticks + 1
            /\ UNCHANGED <<engineVars, jointVars, current_base_yaw,
                           rot>>]_vars

\* a second waypoint call, made with the accumulator loaded by the first,
\* found the base within the threshold and returned after one engine step
C25_Witness ==
    /\ pc = "idle"
    /\ calls = 2
    /\ nav = NoNav
    /\ wp.dist0 < wp.threshold
    /\ wp.dist0 > 0
    /\ wp.cnt = 1
    /\ wp.rotations = 0
    /\ ticks = 1
    /\ ~base_rotated
    /\ pid.integral_accumulator # 0


\* ------------------------------------------------------------------------
\* Properties of the recorder
\* ------------------------------------------------------------------------

\* the frame numbers a sequence of keyframes holds go up by one from each
\* keyframe to the next
Consecutive(frames) ==
    \A j \in 1..(Len(frames) - 1) : frames[j + 1].frame = frames[j].frame + 1

\* C26: after any sequence of register_object, add_keyframe and reset calls,
\* frame_cnt is the number of add_keyframe calls ever made and len(states)
\* the number made since the last reset; the i-th state held stamps every
\* link in it with frame_cnt - len(states) + i - 1, so the frames stored,
\* and the frames get_formatted_output lists for each link, are consecutive
\* and increasing; a reset empties states and leaves frame_cnt and links as
\* they were, so the first keyframe after a reset that follows n keyframes
\* is stamped n, not 0.
C26_RecorderBookkeeping ==
    /\ [](/\ recorder.frame_cnt = recorder.added
          /\ Len(recorder.states) = recorder.added_since_reset
          /\ \A i \in DOMAIN recorder.states :
                \A name \in DOMAIN recorder.states[i] :
                    recorder.states[i][name].frame =
                        recorder.frame_cnt - Len(recorder.states) + i - 1
          /\ \A name \in DOMAIN get_formatted_output(recorder) :
                Consecutive(get_formatted_output(recorder)[name].frames)
          /\ (recorder.added_since_reset = 1 /\ recorder.added > 1) =>
                \A name \in DOMAIN recorder.states[1] :
                    /\ recorder.states[1][name].frame = recorder.added - 1
                    /\ recorder.states[1][name].frame # 0)
    /\ [][(recorder'.added_since_reset < recorder.added_since_reset) =>
            /\ recorder'.states = <<>>
            /\ recorder'.frame_cnt = recorder.frame_cnt
            /\ recorder'.links = recorder.links]_vars

\* two keyframes were recorded and dropped by a reset, and two more recorded
\* after it with links registered: they are stamped 2 and 3
C26_Witness ==
    /\ recorder.added = 4
    /\ recorder.added_since_reset = 2
    /\ Len(recorder.links) > 0
    /\ DOMAIN recorder.states[1] # {}
    /\ \A name \in DOMAIN recorder.states[1] :
            recorder.states[1][name].frame = 2
    /\ \E name \in DOMAIN get_formatted_output(recorder) :
            Len(get_formatted_output(recorder)[name].frames) = 2


\* ------------------------------------------------------------------------
\* Properties of the kitchen
\* ------------------------------------------------------------------------

\* the last open_drawer or close_drawer call made
LastDrawerCall == kitchen.log[Len(kitchen.log)]

\* the call named a drawer of an element that has a branch and a table
KnownDrawer(call) ==
    /\ call.elementName \in DrawerElements
    /\ call.drawer_id \in DOMAIN drawer_to_joint_id(call.elementName)

\* C27: a call for an element with a branch and a drawer id of its table
\* issues exactly one position command, to the mapped joint, with target
\* limits[1] when opening and limits[0] = 0 when closing, and runs the
\* engine; so a close after an open of the same drawer leaves the joint's
\* commanded target at 0.  A call for any other element name issues no
\* command, raises nothing and still runs the engine.  A call for an
\* element with a branch and a drawer id missing from its table raises
\* before any command or engine step.  A call that issues no command leaves
\* every commanded target as it was.
C27_DrawerDispatch ==
    /\ [](Len(kitchen.log) > 0 =>
            LET call == LastDrawerCall
                e == call.elementName
                d == call.drawer_id
            IN /\ KnownDrawer(call) =>
                    /\ ~kitchen.raised
                    /\ Len(kitchen.commands) = 1
                    /\ kitchen.commands[1].body = e
                    /\ kitchen.commands[1].jointIndex =
                            drawer_to_joint_id(e)[d]
                    /\ kitchen.commands[1].targetPosition =
                            drawer_to_joint_limits(e)[d]
                                [IF call.op = "open" THEN 2 ELSE 1]
                    /\ call.op = "close" =>
                            kitchen.commands[1].targetPosition = 0
                    /\ kitchen.target[<<e, drawer_to_joint_id(e)[d]>>] =
                            kitchen.commands[1].targetPosition
                    /\ kitchen.run > 0
               /\ e \notin DrawerElements =>
                    /\ ~kitchen.raised
                    /\ kitchen.commands = <<>>
                    /\ kitchen.run > 0
               /\ (e \in DrawerElements /\ ~KnownDrawer(call)) =>
                    /\ kitchen.raised
                    /\ kitchen.commands = <<>>
                    /\ kitchen.run = 0
               /\ (/\ Len(kitchen.log) > 1
                   /\ KnownDrawer(call)
                   /\ call.op = "close"
                   /\ kitchen.log[Len(kitchen.log) - 1] =
                            [call EXCEPT !.op = "open"]) =>
                    kitchen.target[<<e, drawer_to_joint_id(e)[d]>>] = 0)
    /\ [][(kitchen'.log # kitchen.log /\ kitchen'.commands = <<>>) =>
            kitchen'.target = kitchen.target]_vars

\* the dishwasher's second drawer was opened, which commanded joint 2 to
\* -0.3, and then closed
C27_Witness ==
    /\ kitchen.log = <<[op |-> "open", elementName |-> "elementC",
                        drawer_id |-> 2],
                       [op |-> "close", elementName |-> "elementC",
                        drawer_id |-> 2]>>
    /\ kitchen.commands = <<[body |-> "elementC", jointIndex |-> 2,
                             targetPosition |-> 0]>>
    /\ kitchen.target[<<"elementC", 2>>] = 0
    /\ ~kitchen.raised


\* ------------------------------------------------------------------------
\* Properties of the end effector's rotation
\* ------------------------------------------------------------------------

\* a sim_rotate_end_effector call is waiting in its loop
InRotateWait == arm.op = "rotate_ee" /\ pc = "rotate_ee_loop"

\* every arm joint is within the tolerance of the call's target
AllWithinTolerance ==
    \A i \in Joints :
        Abs(joints[i] - arm.target_joint_values[i]) < rotate_tolerance

\* the call's target for the last joint lies beyond one of its limits
TargetBeyondLimit ==
    \/ arm.target_joint_values[DOF] > arm_upper_limit
    \/ arm.target_joint_values[DOF] < arm_lower_limit

\* C28: sim_rotate_end_effector(angle) commands the joint values it reads
\* with the last one increased by angle (and runs the engine's settling
\* steps); it then returns only on a pass of its loop that finds every joint
\* within 0.01 rad of that target, and until then runs the engine one step
\* per pass with the target and the command unchanged.  Nothing else ends
\* the wait: while some joint is off its target the return is not possible,
\* however many steps have been run, and the next step is; so a call whose
\* target for the last joint lies beyond a joint limit never returns.
C28_WaitsUntilJointsReached ==
    /\ [][(pc = "rotate_ee" /\ pc' = "rotate_ee_loop") =>
            /\ arm'.target_joint_values =
                    [k \in Joints |->
                        IF k = DOF THEN joints[k] + arm.angle ELSE joints[k]]
            /\ motor_target' = arm'.target_joint_values
            /\ ticks' = ticks + arm_settle_ticks]_vars
    /\ [][(InRotateWait /\ pc' = "idle") =>
            /\ AllWithinTolerance
            /\ UNCHANGED <<jointVars, ticks, arm>>]_vars
    /\ [][(InRotateWait /\ pc' = "rotate_ee_loop") =>
            /\ ~AllWithinTolerance
            /\ ticks' = ticks + 1
            /\ UNCHANGED <<motor_target, arm>>]_vars
    /\ []((InRotateWait /\ ~AllWithinTolerance) =>
            /\ ~ENABLED sim_rotate_end_effector_break
            /\ ticks < arm_settle_ticks + MaxWaitTicks =>
                    ENABLED sim_rotate_end_effector_wait)
    /\ []((arm.op = "rotate_ee" /\ pc # "rotate_ee" /\ TargetBeyondLimit) =>
            /\ InRotateWait
            /\ ~AllWithinTolerance)

\* after a call that returned, a second call asked for a target above the
\* last joint's upper limit: the joint is held at the limit and the call is
\* still waiting after every engine step the bound allows
C28_Witness ==
    /\ calls = 2
    /\ InRotateWait
    /\ arm.target_joint_values[DOF] > arm_upper_limit
    /\ joints[DOF] = arm_upper_limit
    /\ ticks = arm_settle_ticks + MaxWaitTicks

====
